---------------------------- MODULE Spec2Model ----------------------------
(***************************************************************************)
(* Model of setup_imdb_db.py: IMDbDatasetLoader and its entry point.       *)
(*                                                                         *)
(* The state is what outlives a step of the script: the files under        *)
(* imdb_data/, the SQLite store (tables, their primary-key constraints,    *)
(* indexes, rows), and the position of the running script.  The remote     *)
(* data set and the store's failures are the environment.                  *)
(***************************************************************************)
EXTENDS Integers, Sequences, FiniteSets, TLC

\* ------------------------------------------------------------------ bounds
\* Records per remote file.
MaxRecords == 3
\* The chunk sizes tried (the code's default is 50,000).
MaxChunk == 2

\* ------------------------------------------------------- static configuration

\* self.files, in insertion order (dict order is iteration order).
Resources ==
    << "title_basics", "title_ratings", "name_basics", "title_principals",
       "title_crew", "title_akas", "title_episode" >>

ResourceSet == { Resources[i] : i \in 1..Len(Resources) }

\* file_table_mapping of load_all_data, in insertion order.
file_table_mapping ==
    << "title_basics", "title_ratings", "name_basics", "title_principals",
       "title_crew" >>

\* tables of get_data_summary.
SummaryTables ==
    << "title_basics", "title_ratings", "name_basics", "title_principals",
       "title_crew" >>

\* The tables the CREATE TABLE IF NOT EXISTS statements name.
SchemaTables ==
    { "title_basics", "title_ratings", "name_basics", "title_principals",
      "title_crew" }

\* The indexes the CREATE INDEX IF NOT EXISTS statements name.
SchemaIndexes ==
    { "idx_title_basics_type", "idx_title_basics_year", "idx_title_basics_genres",
      "idx_title_ratings_rating", "idx_title_ratings_votes",
      "idx_name_basics_profession", "idx_principals_category" }

\* The columns of each table, in declaration order (the files carry the same
\* header).
Columns(t) ==
    CASE t = "title_basics" ->
           << "tconst", "titleType", "primaryTitle", "originalTitle", "isAdult",
              "startYear", "endYear", "runtimeMinutes", "genres" >>
      [] t = "title_ratings" -> << "tconst", "averageRating", "numVotes" >>
      [] t = "name_basics" ->
           << "nconst", "primaryName", "birthYear", "deathYear",
              "primaryProfession", "knownForTitles" >>
      [] t = "title_principals" ->
           << "tconst", "ordering", "nconst", "category", "job", "characters" >>
      [] t = "title_crew" -> << "tconst", "directors", "writers" >>

ColumnSet(t) == { Columns(t)[i] : i \in 1..Len(Columns(t)) }

\* PRIMARY KEY of each table.
KeyCols(t) ==
    CASE t = "name_basics" -> { "nconst" }
      [] t = "title_principals" -> { "tconst", "ordering" }
      [] OTHER -> { "tconst" }

\* The columns load_data_chunk passes through pd.to_numeric for a table.
NumericCols(t) ==
    CASE t = "title_basics" -> { "isAdult", "startYear", "endYear", "runtimeMinutes" }
      [] t = "title_ratings" -> { "averageRating", "numVotes" }
      [] t = "name_basics" -> { "birthYear", "deathYear" }
      [] OTHER -> {}

\* ------------------------------------------------------------ cells and values

\* The null sentinel of the files (na_values=['\\N']).
SENTINEL == "\\N"
\* A cell whose first character is the double quote, with no other quote in it.
QUOTED == "\"ab"

\* A stored (or parsed) value: null, a number, or text.  Text is the sequence of
\* source cells it is made of: one cell, or the cells a quoted field swallowed.
NULL == [kind |-> "null", num |-> 0, txt |-> << >>]
Num(n) == [kind |-> "num", num |-> n, txt |-> << >>]
Text(s) == [kind |-> "text", num |-> 0, txt |-> s]

\* Whether a cell's text is a number, and which.
IsNumeric(c) == c \in { "7", "12" }
NumVal(c) == CASE c = "7" -> 7 [] c = "12" -> 12 [] OTHER -> 0


\* ------------------------------------------------------------ the remote files

\* The remote data set is served as one file per table, every file with the
\* same number of records; record i of each table's file takes its cells from
\* record i of the set, which names the key cell and the kind of the other
\* cells: good (a number in the numeric columns, plain text elsewhere), bad
\* (text in the numeric columns), null (the sentinel in every column, the key
\* included), quote (a cell that starts with '"' in the free-text column).
RecordSet ==
    { [key |-> "tt1", kind |-> "good"],
      [key |-> "tt2", kind |-> "bad"],
      [key |-> SENTINEL, kind |-> "null"],
      [key |-> "tt2", kind |-> "quote"] }

RECURSIVE SeqsUpTo(_, _)
SeqsUpTo(S, n) ==
    IF n = 0 THEN { << >> }
    ELSE LET shorter == SeqsUpTo(S, n - 1)
         IN shorter \cup { Append(s, x) : s \in { q \in shorter : Len(q) = n - 1 }, x \in S }

Datasets == SeqsUpTo(RecordSet, MaxRecords)

\* The cell of a numeric column, of a free-text column and of any other text
\* column in a record of each kind.
NumCell(k) ==
    CASE k = "good" -> "7" [] k = "bad" -> "abc" [] k = "null" -> SENTINEL
      [] k = "quote" -> "12"
TxtCell(k) ==
    CASE k = "good" -> "abc" [] k = "bad" -> "abc" [] k = "null" -> SENTINEL
      [] k = "quote" -> QUOTED
PlainCell(k) == IF k = "quote" THEN "abc" ELSE TxtCell(k)

\* The free-text column of each table (title_ratings has none).
FreeTextCol(t) ==
    CASE t = "title_basics" -> "primaryTitle"
      [] t = "name_basics" -> "primaryName"
      [] t = "title_principals" -> "characters"
      [] t = "title_crew" -> "directors"
      [] OTHER -> "-"

\* The line of table t's file for record g: column -> cell.
FileLine(t, g) ==
    [ c \in ColumnSet(t) |->
        IF c \in KeyCols(t) /\ c # "ordering" THEN g.key
        ELSE IF c = "ordering" \/ c \in NumericCols(t) THEN NumCell(g.kind)
        ELSE IF c = FreeTextCol(t) THEN TxtCell(g.kind)
        ELSE PlainCell(g.kind) ]

\* The file imdb_data/<t>.tsv.gz as retrieved from a remote data set.
FileOf(t, data) == [ i \in 1..Len(data) |-> FileLine(t, data[i]) ]

\* ------------------------------------------------------------------- read_csv

\* pd.read_csv(f, sep='\t', ...) is called without quoting=, so the parser's
\* default applies: a field whose first character is '"' is a quoted field and
\* runs, through tabs and line breaks, to the next '"'.  Tok walks the cells of
\* the file in order; acc holds the cells of the open quoted field, row the
\* fields of the record so far.  The result is the records (each a sequence of
\* fields, a field being the sequence of cells it is made of) and whether the
\* file ends inside a quoted field.
RECURSIVE Tok(_, _, _, _, _, _)
Tok(t, file, p, acc, row, out) ==
    LET n == Len(Columns(t)) IN
    IF p > Len(file) * n
    THEN [rows |-> out, eof_in_string |-> acc # << >>]
    ELSE LET c == file[((p - 1) \div n) + 1][Columns(t)[((p - 1) % n) + 1]]
             eol == (p % n = 0)
         IN IF acc = << >> /\ c = QUOTED
            THEN Tok(t, file, p + 1, << c >>, row, out)
            ELSE IF acc # << >> /\ c # QUOTED
            THEN Tok(t, file, p + 1, Append(acc, c), row, out)
            ELSE LET row2 == Append(row, Append(acc, c))
                 IN IF eol THEN Tok(t, file, p + 1, << >>, << >>, Append(out, row2))
                    ELSE Tok(t, file, p + 1, << >>, row2, out)

Tokenize(t, file) == Tok(t, file, 1, << >>, << >>, << >>)

\* A record with more fields than the header: the parser raises on it.
BadLine(t, row) == Len(row) > Len(Columns(t))

\* Field i of a tokenized record; a short record is padded with missing values.
Field(row, i) == IF i <= Len(row) THEN row[i] ELSE << SENTINEL >>

\* na_values=['\\N'], keep_default_na=False: the missing fields.
IsNA(field) == field = << SENTINEL >>

\* Type inference over one column of a chunk: the column is numeric when every
\* field that is not missing is a number; otherwise its fields stay text.  (The
\* files of RecordSet hold numbers only in columns declared INTEGER or REAL.)
ColIsNumeric(rows, i) ==
    \A r \in 1..Len(rows) :
        LET f == Field(rows[r], i)
        IN IsNA(f) \/ (Len(f) = 1 /\ IsNumeric(f[1]))

ReadValue(rows, r, i) ==
    LET f == Field(rows[r], i)
    IN IF IsNA(f) THEN NULL
       ELSE IF ColIsNumeric(rows, i) THEN Num(NumVal(f[1]))
       ELSE Text(f)

ColIndex(t, c) == CHOOSE i \in 1..Len(Columns(t)) : Columns(t)[i] = c

\* The chunk (DataFrame) read_csv yields for these tokenized records.
ReadChunk(t, rows) ==
    [ r \in 1..Len(rows) |->
        [ c \in ColumnSet(t) |-> ReadValue(rows, r, ColIndex(t, c)) ] ]


\* ------------------------------------------------------- cleaning and coercion

\* Mutant: the arguments of replace the other way round.
Replace_swapped(v) == IF v = NULL THEN Text(<< SENTINEL >>) ELSE v

\* chunk.replace('\\N', None), on one value: a cell that still reads as the
\* sentinel becomes None.
Replace(v) == IF v = Text(<< SENTINEL >>) THEN NULL ELSE v

\* Mutant: errors='ignore', which hands back what cannot be converted.
ToNumeric_ignore(v) ==
    IF v.kind = "text" /\ Len(v.txt) = 1 /\ IsNumeric(v.txt[1]) THEN Num(NumVal(v.txt[1])) ELSE v

\* pd.to_numeric(..., errors='coerce'), on one value.
ToNumeric(v) ==
    IF v.kind = "text"
    THEN IF Len(v.txt) = 1 /\ IsNumeric(v.txt[1]) THEN Num(NumVal(v.txt[1])) ELSE NULL
    ELSE v

\* The per-table conversions of load_data_chunk, on one value of column c.
Coerce(t, c, v) == IF c \in NumericCols(t) THEN ToNumeric(v) ELSE v

\* The chunk as handed to to_sql: cleaned, then coerced.
CleanChunk(t, chunk) ==
    [ r \in 1..Len(chunk) |->
        [ c \in ColumnSet(t) |-> Coerce(t, c, Replace(chunk[r][c])) ] ]

\* ---------------------------------------------------------------- the store

\* The declared type of each column.
Affinity(t, c) ==
    IF c \in { "isAdult", "startYear", "endYear", "runtimeMinutes", "numVotes",
               "birthYear", "deathYear", "ordering" } THEN "INTEGER"
    ELSE IF c = "averageRating" THEN "REAL"
    ELSE "TEXT"

\* What SQLite stores for a value bound to a column of table t: a column with
\* numeric affinity turns well-formed numeric text into the number.
Stored(t, c, v) ==
    IF Affinity(t, c) # "TEXT" /\ v.kind = "text" /\ Len(v.txt) = 1 /\ IsNumeric(v.txt[1])
    THEN Num(NumVal(v.txt[1]))
    ELSE v

StoredRows(t, chunk) ==
    [ r \in 1..Len(chunk) |-> [ c \in ColumnSet(t) |-> Stored(t, c, chunk[r][c]) ] ]

\* The primary key of a row; SQLite exempts a key with a NULL in it from the
\* uniqueness check (the columns are not declared NOT NULL).
Key(t, row) == [ c \in KeyCols(t) |-> row[c] ]
KeyHasNull(t, row) == \E c \in KeyCols(t) : row[c].kind = "null"

\* Whether inserting the rows new, in order, after the rows old, breaks the
\* primary key of a table that has one.
KeyConflict(t, constrained, old, new) ==
    /\ t \in constrained
    /\ \E i \in 1..Len(new) :
          /\ ~KeyHasNull(t, new[i])
          /\ \/ \E j \in 1..Len(old) : Key(t, old[j]) = Key(t, new[i])
             \/ \E j \in 1..(i - 1) : Key(t, new[j]) = Key(t, new[i])


\* -------------------------------------------------------------------- state

VARIABLES
    remote,       \* the data set the remote site serves
    chunksize,    \* load_data_chunk's chunksize
    files,        \* imdb_data/: resource -> how many times its file was written
    tables,       \* the store: the tables that exist
    constrained,  \* the tables created with their PRIMARY KEY
    indexes,      \* the indexes that exist
    rows,         \* table -> the rows stored, in insertion order
    pc,           \* the phase of __main__: download, schema, load, summary, done, error
    idx,          \* the position of the phase's for loop
    loading,      \* inside load_data_chunk
    chunk_iter,   \* the reader over the open file: its tokenized records
    cursor,       \* records of the file consumed by chunk_iter
    total_rows,   \* load_data_chunk's total_rows
    base,         \* the rows the table held when load_data_chunk was called
    fetchlog,     \* resource -> what download_files did with it in this run
    schema_done,  \* create_schema has returned in this run
    started,      \* the tables load_data_chunk was called for in this run, in order
    reported,     \* table -> the total load_data_chunk printed in this run (-1: none)
    summary,      \* the number of lines get_data_summary printed in this run
    last_line,    \* the last of them
    not_found,    \* how many of them read "Table not found"
    error         \* the exception that ended this run ("" while none)

vars ==
    << remote, chunksize, files, tables, constrained, indexes, rows, pc, idx,
       loading, chunk_iter, cursor, total_rows, base, fetchlog, schema_done, started,
       reported, summary, last_line, not_found, error >>

env == << remote, chunksize >>
disk == << files >>
store == << tables, constrained, indexes, rows >>
loadvars == << loading, chunk_iter, cursor, total_rows, base, started, reported >>
fetchvars == << fetchlog >>
sumvars == << summary, last_line, not_found >>

Min(a, b) == IF a < b THEN a ELSE b

\* Mutant: the data is loaded before the schema is created.
main_load_first == << "download", "load", "schema", "summary" >>

\* The statements of __main__, in order.
main == << "download", "schema", "load", "summary" >>

\* The phase that follows phase ph in __main__.
After(ph) ==
    LET i == CHOOSE k \in 1..Len(main) : main[k] = ph
    IN IF i < Len(main) THEN main[i + 1] ELSE "done"

NoLog == [ r \in ResourceSet |-> "-" ]
NoReport == [ t \in SchemaTables |-> -1 ]
NoLine == [table |-> "-", count |-> -1]
Closed == [rows |-> << >>, eof_in_string |-> FALSE]

Init ==
    /\ remote \in Datasets
    /\ chunksize \in 1..MaxChunk
    /\ files = [ r \in ResourceSet |-> 0 ]
    /\ tables = {}
    /\ constrained = {}
    /\ indexes = {}
    /\ rows = [ t \in SchemaTables |-> << >> ]
    /\ pc = main[1]
    /\ idx = 1
    /\ loading = FALSE
    /\ chunk_iter = Closed
    /\ cursor = 0
    /\ total_rows = 0
    /\ base = 0
    /\ fetchlog = NoLog
    /\ schema_done = FALSE
    /\ started = << >>
    /\ reported = NoReport
    /\ summary = 0
    /\ last_line = NoLine
    /\ not_found = 0
    /\ error = ""

\* ------------------------------------------------------------ download_files

\* os.path.exists(filepath)
PathExists(r) == files[r] # 0

\* Mutant: the existence test left out, every resource is retrieved.
ShouldRetrieve_always(r) == TRUE

\* The test of download_files: retrieve when the path does not exist.
ShouldRetrieve(r) == ~PathExists(r)

\* The for loop of a phase moves on, or the phase returns to __main__.
Advance(ph, n) ==
    IF idx < n
    THEN /\ idx' = idx + 1
         /\ pc' = pc
    ELSE /\ idx' = 1
         /\ pc' = After(ph)

\* The file is there: "already exists, skipping...".
DownloadSkip ==
    /\ pc = "download"
    /\ LET r == Resources[idx]
       IN /\ ~ShouldRetrieve(r)
          /\ fetchlog' = [fetchlog EXCEPT ![r] = "skipped"]
    /\ Advance("download", Len(Resources))
    /\ UNCHANGED << env, disk, store, loadvars, schema_done, sumvars, error >>

\* urllib.request.urlretrieve(url, filepath) writes the file.
DownloadRetrieve ==
    /\ pc = "download"
    /\ LET r == Resources[idx]
       IN /\ ShouldRetrieve(r)
          /\ fetchlog' = [fetchlog EXCEPT ![r] = "retrieved"]
          /\ files' = [files EXCEPT ![r] = files[r] + 1]
    /\ Advance("download", Len(Resources))
    /\ UNCHANGED << env, store, loadvars, schema_done, sumvars, error >>

\* urlretrieve raises (the transport fails before the file is opened): the
\* exception is not caught and ends the run.
DownloadFails ==
    /\ pc = "download"
    /\ LET r == Resources[idx]
       IN /\ ShouldRetrieve(r)
          /\ fetchlog' = [fetchlog EXCEPT ![r] = "failed"]
    /\ pc' = "error"
    /\ error' = "transport"
    /\ UNCHANGED << env, disk, store, idx, loadvars, schema_done, sumvars >>

\* ------------------------------------------------------------- create_schema

\* Mutant: the tables are dropped and created anew.
create_schema_drop ==
    /\ pc = "schema"
    /\ tables' = SchemaTables
    /\ constrained' = SchemaTables
    /\ indexes' = SchemaIndexes
    /\ rows' = [ t \in SchemaTables |-> << >> ]
    /\ schema_done' = TRUE
    /\ pc' = After("schema")
    /\ idx' = 1
    /\ UNCHANGED << env, disk, loadvars, fetchvars, sumvars, error >>

\* conn.executescript(schema_sql): every statement is IF NOT EXISTS.
create_schema ==
    /\ pc = "schema"
    /\ tables' = tables \cup SchemaTables
    /\ constrained' = constrained \cup (SchemaTables \ tables)
    /\ indexes' = indexes \cup SchemaIndexes
    /\ schema_done' = TRUE
    /\ pc' = After("schema")
    /\ idx' = 1
    /\ UNCHANGED << env, disk, rows, loadvars, fetchvars, sumvars, error >>


\* ----------------------------------------------- load_all_data, load_data_chunk

\* The table load_all_data's loop is at.
CurTable == file_table_mapping[idx]

\* The next step of chunk_iter: up to chunksize records from the cursor on.  The
\* parser raises when one of them has too many fields, or when it reaches the
\* end of the file inside a quoted field while collecting them.
NextChunk(t, all, at, size) ==
    LET last == Min(at + size, Len(all.rows))
        taken == SubSeq(all.rows, at + 1, last)
    IN [ records |-> taken,
         last |-> last,
         exhausted |-> at >= Len(all.rows) /\ ~all.eof_in_string,
         raises |-> \/ \E i \in 1..Len(taken) : BadLine(t, taken[i])
                    \/ (at + size > Len(all.rows) /\ all.eof_in_string) ]

\* The rows chunk.to_sql(table_name, conn, if_exists='append', index=False)
\* inserts for a chunk of tokenized records.
ChunkRows(t, records) == StoredRows(t, CleanChunk(t, ReadChunk(t, records)))

\* load_all_data calls load_data_chunk for the next file, when it exists.
LoadBegin ==
    /\ pc = "load"
    /\ ~loading
    /\ IF PathExists(CurTable)
       THEN /\ loading' = TRUE
            /\ chunk_iter' = Tokenize(CurTable, FileOf(CurTable, remote))
            /\ cursor' = 0
            /\ total_rows' = 0
            /\ base' = Len(rows[CurTable])
            /\ started' = Append(started, CurTable)
            /\ UNCHANGED << pc, idx, reported >>
       ELSE /\ Advance("load", Len(file_table_mapping))
            /\ UNCHANGED loadvars
    /\ UNCHANGED << env, disk, store, fetchvars, schema_done, sumvars, error >>

\* Mutant: if_exists='replace', every chunk replaces the table.
LoadChunk_replace ==
    /\ pc = "load"
    /\ loading
    /\ LET t == CurTable
           nc == NextChunk(t, chunk_iter, cursor, chunksize)
           new == ChunkRows(t, nc.records)
       IN /\ ~nc.exhausted
          /\ ~nc.raises
          /\ rows' = [rows EXCEPT ![t] = new]
          /\ tables' = tables \cup {t}
          /\ constrained' = constrained \ {t}
          /\ total_rows' = total_rows + Len(nc.records)
          /\ cursor' = nc.last
    /\ UNCHANGED << env, disk, indexes, pc, idx, loading, chunk_iter,
                    base, started, reported, fetchvars, schema_done, sumvars, error >>

\* One pass of the for loop: a chunk is read, cleaned, coerced and appended.
\* to_sql creates the table, without a key, when it does not exist.
LoadChunk ==
    /\ pc = "load"
    /\ loading
    /\ LET t == CurTable
           nc == NextChunk(t, chunk_iter, cursor, chunksize)
           new == ChunkRows(t, nc.records)
       IN /\ ~nc.exhausted
          /\ ~nc.raises
          /\ ~KeyConflict(t, constrained, rows[t], new)
          /\ rows' = [rows EXCEPT ![t] = rows[t] \o new]
          /\ tables' = tables \cup {t}
          /\ total_rows' = total_rows + Len(nc.records)
          /\ cursor' = nc.last
    /\ UNCHANGED << env, disk, constrained, indexes, pc, idx, loading, chunk_iter,
                    base, started, reported, fetchvars, schema_done, sumvars, error >>

\* read_csv raises while reading the next chunk: nothing of it is stored.
LoadChunkParseFails ==
    /\ pc = "load"
    /\ loading
    /\ NextChunk(CurTable, chunk_iter, cursor, chunksize).raises
    /\ pc' = "error"
    /\ error' = "parse"
    /\ UNCHANGED << env, disk, store, idx, loadvars, fetchvars, schema_done,
                    sumvars >>

\* Mutant: the whole file is one transaction, rolled back when a write fails.
LoadChunkWriteFails_rollback ==
    /\ pc = "load"
    /\ loading
    /\ LET t == CurTable
           nc == NextChunk(t, chunk_iter, cursor, chunksize)
       IN /\ ~nc.exhausted
          /\ ~nc.raises
          /\ \E store_fails \in BOOLEAN :
                store_fails \/ KeyConflict(t, constrained, rows[t], ChunkRows(t, nc.records))
          /\ rows' = [rows EXCEPT ![t] = SubSeq(rows[t], 1, base)]
    /\ pc' = "error"
    /\ error' = "write"
    /\ UNCHANGED << env, disk, tables, constrained, indexes, idx, loadvars, fetchvars,
                    schema_done, sumvars >>

\* to_sql raises: the key is violated, or the store fails the write.  The
\* chunk's insert is rolled back; the exception is not caught.
LoadChunkWriteFails ==
    /\ pc = "load"
    /\ loading
    /\ LET t == CurTable
           nc == NextChunk(t, chunk_iter, cursor, chunksize)
       IN /\ ~nc.exhausted
          /\ ~nc.raises
          /\ \E store_fails \in BOOLEAN :
                store_fails \/ KeyConflict(t, constrained, rows[t], ChunkRows(t, nc.records))
    /\ pc' = "error"
    /\ error' = "write"
    /\ UNCHANGED << env, disk, store, idx, loadvars, fetchvars, schema_done,
                    sumvars >>

\* chunk_iter is exhausted: "Loaded N rows into <table>", and back to
\* load_all_data's loop.
LoadEnd ==
    /\ pc = "load"
    /\ loading
    /\ NextChunk(CurTable, chunk_iter, cursor, chunksize).exhausted
    /\ reported' = [reported EXCEPT ![CurTable] = total_rows]
    /\ loading' = FALSE
    /\ chunk_iter' = Closed
    /\ Advance("load", Len(file_table_mapping))
    /\ UNCHANGED << env, disk, store, cursor, total_rows, base, started,
                    fetchvars, schema_done, sumvars, error >>

\* ---------------------------------------------------------- get_data_summary

\* SELECT COUNT(*) succeeds: "<table>: N records".
SummaryCount ==
    /\ pc = "summary"
    /\ LET t == SummaryTables[idx]
       IN /\ t \in tables
          /\ summary' = summary + 1
          /\ last_line' = [table |-> t, count |-> Len(rows[t])]
          /\ UNCHANGED not_found
    /\ Advance("summary", Len(SummaryTables))
    /\ UNCHANGED << env, disk, store, loadvars, fetchvars, schema_done, error >>

\* Mutant: no try/except around the query, the exception ends the run.
SummaryNotFound_raises ==
    /\ pc = "summary"
    /\ LET t == SummaryTables[idx]
       IN \E query_fails \in BOOLEAN : query_fails \/ t \notin tables
    /\ pc' = "error"
    /\ error' = "query"
    /\ UNCHANGED << env, disk, store, idx, loadvars, fetchvars, schema_done, sumvars >>

\* The query raises (no such table, or the store fails the read): the bare
\* except prints "<table>: Table not found" and the loop goes on.
SummaryNotFound ==
    /\ pc = "summary"
    /\ LET t == SummaryTables[idx]
       IN /\ \E query_fails \in BOOLEAN : query_fails \/ t \notin tables
          /\ summary' = summary + 1
          /\ last_line' = [table |-> t, count |-> -1]
          /\ not_found' = not_found + 1
    /\ Advance("summary", Len(SummaryTables))
    /\ UNCHANGED << env, disk, store, loadvars, fetchvars, schema_done, error >>

\* ------------------------------------------------------------------ __main__

\* The script is started again, on the directory and the store the last run
\* left.  (Rows with a null key pile up run after run; the script is started
\* again only while no table holds more than MaxRecords rows.)
Restart ==
    /\ pc \in { "done", "error" }
    /\ \A t \in SchemaTables : Len(rows[t]) <= MaxRecords
    /\ pc' = main[1]
    /\ idx' = 1
    /\ loading' = FALSE
    /\ chunk_iter' = Closed
    /\ cursor' = 0
    /\ total_rows' = 0
    /\ base' = 0
    /\ fetchlog' = NoLog
    /\ schema_done' = FALSE
    /\ started' = << >>
    /\ reported' = NoReport
    /\ summary' = 0
    /\ last_line' = NoLine
    /\ not_found' = 0
    /\ error' = ""
    /\ UNCHANGED << env, disk, store >>

Next ==
    \/ DownloadSkip
    \/ DownloadRetrieve
    \/ DownloadFails
    \/ create_schema
    \/ LoadBegin
    \/ LoadChunk
    \/ LoadChunkParseFails
    \/ LoadChunkWriteFails
    \/ LoadEnd
    \/ SummaryCount
    \/ SummaryNotFound
    \/ Restart

Spec == Init /\ [][Next]_vars


\* ---------------------------------------------------------------- properties

\* The table load_data_chunk was last called for in this run.
LastStarted == started[Len(started)]

\* The value a field of a file's record is to be stored as, cell by cell: the
\* sentinel as null, a number in a numeric column as that number, anything else
\* in a column passed to to_numeric as null, any other field as its own text.
Expected(t, c, f) ==
    IF f = << SENTINEL >> THEN NULL
    ELSE IF Affinity(t, c) # "TEXT" /\ Len(f) = 1 /\ IsNumeric(f[1]) THEN Num(NumVal(f[1]))
    ELSE IF c \in NumericCols(t) THEN NULL
    ELSE Text(f)

\* C1 (as claimed).  Batch completeness: a call of load_data_chunk that returns
\* has added exactly R rows to its table and reported the total R, R being the
\* number of records of the file.
BatchCompleteness ==
    (/\ pc \in { "load", "summary", "done" }
     /\ ~loading
     /\ started # << >>
     /\ reported[LastStarted] # -1)
    => /\ reported[LastStarted] = Len(FileOf(LastStarted, remote))
       /\ Len(rows[LastStarted]) = base + Len(FileOf(LastStarted, remote))

\* C1, the part that holds: a call that returns has added one row for every
\* record read_csv delivered, and reported that number.
BatchCompletenessOfParsed ==
    (/\ pc \in { "load", "summary", "done" }
     /\ ~loading
     /\ started # << >>
     /\ reported[LastStarted] # -1)
    => /\ reported[LastStarted] = Len(Tokenize(LastStarted, FileOf(LastStarted, remote)).rows)
       /\ Len(rows[LastStarted]) = base + reported[LastStarted]

\* C3 (as claimed).  Primary-key uniqueness: no two rows of a table have the
\* same primary key.
PrimaryKeyUnique ==
    \A t \in SchemaTables :
        \A i, j \in 1..Len(rows[t]) :
            i # j => Key(t, rows[t][i]) # Key(t, rows[t][j])

\* C3, the part that holds: no two rows of a table created by create_schema
\* have the same primary key with no null in it.
PrimaryKeyUniqueAmongNonNull ==
    \A t \in constrained :
        \A i, j \in 1..Len(rows[t]) :
            (i # j /\ ~KeyHasNull(t, rows[t][i])) => Key(t, rows[t][i]) # Key(t, rows[t][j])

RECURSIVE Loaded(_, _, _, _, _)
Loaded(t, records, from, to, size) ==
    IF from >= to THEN << >>
    ELSE LET last == Min(from + size, to)
         IN ChunkRows(t, SubSeq(records, from + 1, last))
               \o Loaded(t, records, last, to, size)

\* A write of the chunk after `cursor` records has failed: the rows of the
\* chunks before it are in the table, nothing was reported for the table, and
\* no summary line was printed.
FailedWrite ==
    /\ pc = "error"
    /\ loading
    /\ Len(rows[CurTable]) = base + cursor
    /\ SubSeq(rows[CurTable], base + 1, base + cursor)
          = Loaded(CurTable, chunk_iter.rows, 0, cursor, chunksize)
    /\ reported[CurTable] = -1
    /\ summary = 0

\* C2.  Partial failure: when the write of a chunk fails, the rows of the
\* chunks before it stay in the table, and the run is over: the only step that
\* follows is a new start of the script, which finds the store as it was left.
PartialFailure ==
    [][ /\ error' = "write" => FailedWrite'
        /\ error = "write" => (pc' = "download" /\ error' = "" /\ UNCHANGED store) ]_vars

\* C2 witness: a write failed after at least one chunk of the file was stored.
PartialFailureWitness ==
    /\ error = "write"
    /\ cursor > 0
    /\ Len(rows[CurTable]) > base

\* C4.  Fetch skip: download_files tries to retrieve a resource exactly when no
\* file is at its path as the loop reaches it, and no step writes a path that
\* already holds a file.
FetchSkip ==
    [][ /\ pc = "download" =>
              LET r == Resources[idx]
              IN (fetchlog'[r] \in { "retrieved", "failed" } \/ files'[r] # files[r])
                    <=> files[r] = 0
        /\ \A r \in ResourceSet : files[r] # 0 => files'[r] = files[r] ]_vars

\* C4 witness: in one run a file that was there was skipped and one that was
\* not was retrieved.
FetchSkipWitness ==
    \E r, q \in ResourceSet :
        /\ fetchlog[r] = "skipped"
        /\ fetchlog[q] = "retrieved"
        /\ files[r] = 1
        /\ files[q] = 1

\* C5.  Schema idempotence: create_schema on a store that holds the tables and
\* the indexes raises nothing and leaves tables, keys, indexes and rows as they
\* were.
SchemaIdempotence ==
    [][ (pc = "schema" /\ SchemaTables \subseteq tables /\ SchemaIndexes \subseteq indexes)
            => (UNCHANGED store /\ pc' # "error" /\ error' = "") ]_vars

\* C5 witness: create_schema has just returned, in a run that has loaded
\* nothing yet, on a store that holds rows.
SchemaIdempotenceWitness ==
    /\ schema_done
    /\ pc = "load"
    /\ started = << >>
    /\ rows["title_basics"] # << >>

\* The five tables, in the order the script names them.
FiveTables ==
    << "title_basics", "title_ratings", "name_basics", "title_principals",
       "title_crew" >>

Rank(p) ==
    CASE p = "download" -> 1 [] p = "schema" -> 2 [] p = "load" -> 3
      [] p = "summary" -> 4 [] OTHER -> 5

\* C8.  Phase ordering: within a run the phases follow one another as download,
\* schema, load, summary; the schema phase starts when all seven resources
\* have been fetched or skipped; rows are inserted only in the load phase and
\* after create_schema has returned; load_data_chunk is called for the five
\* tables in the fixed order, each call after the one before has returned; the
\* summary starts when all five have been loaded.
PhaseOrdering ==
    [][ /\ pc \notin { "done", "error" } => Rank(pc') >= Rank(pc)
        /\ (pc \notin { "done", "error" } /\ pc' # "error") => Rank(pc') <= Rank(pc) + 1
        /\ (pc' = "schema" /\ pc # "schema") =>
              \A r \in ResourceSet : fetchlog'[r] \in { "skipped", "retrieved" }
        /\ (pc' = "load" /\ pc # "load") => schema_done'
        /\ rows' # rows => (pc = "load" /\ schema_done)
        /\ (started' # started /\ started' # << >>) =>
              /\ Len(started') = Len(started) + 1
              /\ started'[Len(started')] = FiveTables[Len(started')]
              /\ \A i \in 1..Len(started) : reported[started[i]] # -1
        /\ (pc' = "summary" /\ pc # "summary") =>
              /\ started' = FiveTables
              /\ \A i \in 1..Len(FiveTables) : reported'[FiveTables[i]] # -1 ]_vars

\* C8 witness: a run went through all four phases.
PhaseOrderingWitness ==
    /\ pc = "done"
    /\ summary = 5
    /\ started = FiveTables
    /\ rows["title_crew"] # << >>

\* C9.  Summary resilience: every step of get_data_summary prints the line of
\* the next of the five tables, "not found" when the table is absent or the
\* query fails and the count of its rows otherwise, and goes on to the next
\* table; it ends after the fifth, never with an exception.
SummaryResilience ==
    [][ pc = "summary" =>
          LET t == FiveTables[summary + 1]
          IN /\ summary' = summary + 1
             /\ last_line'.table = t
             /\ last_line'.count \in { -1, Len(rows[t]) }
             /\ t \notin tables => last_line'.count = -1
             /\ not_found' = not_found + (IF last_line'.count = -1 THEN 1 ELSE 0)
             /\ pc' = (IF summary' = 5 THEN "done" ELSE "summary")
             /\ error' = "" ]_vars

\* C9 witness: the summary is complete, with a query that failed before the
\* last one, which succeeded.
SummaryResilienceWitness ==
    /\ pc = "done"
    /\ summary = 5
    /\ not_found >= 1
    /\ last_line.count >= 0

\* C10.  Append-only store: every step leaves the rows a table held in place,
\* in order, at most adding rows after them; no table or index goes away; the
\* fetch, schema and summary steps leave the rows as they are, and the summary
\* leaves the whole store as it is.
AppendOnly ==
    [][ /\ \A t \in SchemaTables :
              /\ Len(rows[t]) <= Len(rows'[t])
              /\ SubSeq(rows'[t], 1, Len(rows[t])) = rows[t]
        /\ tables \subseteq tables'
        /\ indexes \subseteq indexes'
        /\ pc # "load" => rows' = rows
        /\ pc = "summary" => UNCHANGED store ]_vars

\* C10 witness: the summary has run on a store that holds rows from two chunks.
AppendOnlyWitness ==
    /\ pc = "done"
    /\ summary = 5
    /\ chunksize = 1
    /\ Len(rows["title_ratings"]) >= 2

=============================================================================
